---- MODULE Spec2Model ----
(***************************************************************************)
(* A model of src/mcp-server/src/main.py: the FastAPI application that     *)
(* fetches an OpenAPI document, builds a FastMCP server from it, mounts it *)
(* under /mcp/<server_id> and returns its URL.                             *)
(*                                                                         *)
(* Text that the code formats, strips or parses (URLs, paths, server ids)  *)
(* is a sequence of one-character strings; text that is only concatenated  *)
(* (error details) is a TLA+ string.                                       *)
(***************************************************************************)
EXTENDS Integers, Sequences, FiniteSets, TLC

VARIABLES
    yaml,             \* main.py:16-19: TRUE when the yaml module was imported
    routes,           \* app.router.routes, in match order
    RUNNING_SERVERS,  \* main.py:36: server_id -> [mount_path, mcp]
    req,              \* the HTTP requests (one asyncio task each)
    sec,              \* get_security_schemes_for_route / customize_components harness
    durl              \* _derive_base_url harness

vars == <<yaml, routes, RUNNING_SERVERS, req, sec, durl>>

(***************************************************************************)
(* Bounds of the model.                                                    *)
(***************************************************************************)
MaxRequests == 2   \* HTTP requests in one behaviour
MaxToken == 1      \* outcomes of secrets.token_hex considered: 0..MaxToken
MaxSecLen == 2     \* length of a 'security' list
MaxUrlLen == 5     \* length of an openapi_url given to _derive_base_url

(***************************************************************************)
(* Text helpers.                                                           *)
(***************************************************************************)
Slash == "/"

IsPrefix(p, s) == Len(p) <= Len(s) /\ SubSeq(s, 1, Len(p)) = p

\* str.rstrip("/"): drop every trailing "/"
RECURSIVE RStripSlash(_)
RStripSlash(s) ==
    IF s # <<>> /\ s[Len(s)] = Slash THEN RStripSlash(SubSeq(s, 1, Len(s) - 1))
    ELSE s

\* index of the first element of s that is in set cs, at or after i; 0 if none
RECURSIVE FindFirst(_, _, _)
FindFirst(s, cs, i) ==
    IF i > Len(s) THEN 0
    ELSE IF s[i] \in cs THEN i
    ELSE FindFirst(s, cs, i + 1)

(***************************************************************************)
(* urllib.parse.urlparse, as far as main.py uses it: scheme and netloc     *)
(* (and the path, which a client's request carries to the router).         *)
(* It raises ValueError("Invalid IPv6 URL") for a netloc with an unmatched  *)
(* bracket.  The inputs below hold no "]", no control characters and no    *)
(* non-ASCII text, for which Python versions differ.                       *)
(***************************************************************************)
Letters == {"h", "H", "a", "b", "c", "m", "p", "s", "r", "v", "t", "d", "e", "f"}
Digits == {"0", "1", "2", "3", "4", "5", "6", "7", "8", "9"}
SchemeChars == Letters \cup Digits \cup {"+", "-", "."}

Lower(c) == IF c = "H" THEN "h" ELSE c

LowerAll(s) == [i \in 1..Len(s) |-> Lower(s[i])]

urlparse(url) ==
    LET i == FindFirst(url, {":"}, 1)
        hasScheme == i > 1 /\ \A k \in 1..(i - 1) : url[k] \in SchemeChars
        scheme == IF hasScheme THEN LowerAll(SubSeq(url, 1, i - 1)) ELSE <<>>
        rest == IF hasScheme THEN SubSeq(url, i + 1, Len(url)) ELSE url
        hasNetloc == IsPrefix(<<"/", "/">>, rest)
        j == IF hasNetloc THEN FindFirst(rest, {"/", "?", "#"}, 3) ELSE 0
        netloc == IF ~hasNetloc THEN <<>>
                  ELSE IF j = 0 THEN SubSeq(rest, 3, Len(rest))
                  ELSE SubSeq(rest, 3, j - 1)
        after == IF ~hasNetloc THEN rest
                 ELSE IF j = 0 THEN <<>>
                 ELSE SubSeq(rest, j, Len(rest))
        q == FindFirst(after, {"?", "#"}, 1)
        path == IF q = 0 THEN after ELSE SubSeq(after, 1, q - 1)
        inNet(c) == \E k \in 1..Len(netloc) : netloc[k] = c
    IN  IF (inNet("[") /\ ~inNet("]")) \/ (inNet("]") /\ ~inNet("["))
        THEN [raised |-> TRUE, exc |-> "Invalid IPv6 URL",
              scheme |-> <<>>, netloc |-> <<>>, path |-> <<>>]
        ELSE [raised |-> FALSE, exc |-> "",
              scheme |-> scheme, netloc |-> netloc, path |-> path]

(***************************************************************************)
(* secrets.token_hex(4): four random bytes, each written as two hex digits.*)
(***************************************************************************)
TokenNBytes == 4

HexChars == <<"0", "1", "2", "3", "4", "5", "6", "7",
              "8", "9", "a", "b", "c", "d", "e", "f">>

HexByte(b) == <<HexChars[(b \div 16) + 1], HexChars[(b % 16) + 1]>>

RECURSIVE HexOf(_)
HexOf(bytes) ==
    IF bytes = <<>> THEN <<>> ELSE HexByte(Head(bytes)) \o HexOf(Tail(bytes))

\* the k-th outcome of the random source that the model considers
TokenSample(k) == [i \in 1..TokenNBytes |-> (171 * k + 37 * i * k) % 256]

token_hex == { HexOf(TokenSample(k)) : k \in 0..MaxToken }

(***************************************************************************)
(* JSON values, as far as the code looks into them.  A document is         *)
(*   [t, servers, openapi]: t = "dict" for a mapping, "other" for a list,  *)
(*   a scalar or null (no .get); servers is the value under "servers";     *)
(*   openapi says whether FastMCP.from_openapi accepts the document.       *)
(***************************************************************************)
Absent == [t |-> "absent", v |-> <<>>, items |-> <<>>]
Null == [t |-> "null", v |-> <<>>, items |-> <<>>]
JStr(s) == [t |-> "str", v |-> s, items |-> <<>>]
JInt == [t |-> "int", v |-> <<>>, items |-> <<>>]
JList(xs) == [t |-> "list", v |-> <<>>, items |-> xs]
\* a server object: a dict whose "url" is u
JServer(u) == [t |-> "dict", url |-> u]
\* a non-empty dict that is no list (truthy)
JDict == [t |-> "dict", v |-> <<>>, items |-> <<>>]

\* Python truthiness of a JSON value
Truthy(x) ==
    CASE x.t = "absent" -> FALSE
      [] x.t = "null" -> FALSE
      [] x.t = "str" -> x.v # <<>>
      [] x.t = "list" -> x.items # <<>>
      [] OTHER -> TRUE

UrlOrigin(p) == p.scheme \o <<":", "/", "/">> \o p.netloc

\* faulty variant: the first server's url is returned without the test that it is non-empty
_derive_base_url_any_str(openapi_spec, openapi_url) ==
    LET servers == IF openapi_spec.t # "dict" THEN JList(<<>>)
                   ELSE IF Truthy(openapi_spec.servers) THEN openapi_spec.servers
                   ELSE JList(<<>>)
        first == servers.items[1]
        url == IF first.t = "dict" THEN first.url ELSE Null
        parsed == urlparse(openapi_url)
    IN  IF /\ openapi_spec.t = "dict"
           /\ Truthy(servers) /\ servers.t = "list"
           /\ url.t = "str"
        THEN [raised |-> FALSE, exc |-> "", value |-> url.v]
        ELSE IF parsed.raised
        THEN [raised |-> TRUE, exc |-> parsed.exc, value |-> <<>>]
        ELSE [raised |-> FALSE, exc |-> "", value |-> UrlOrigin(parsed)]

\* main.py:41-52.  The result is [raised, exc, value].
_derive_base_url(openapi_spec, openapi_url) ==
    LET \* openapi_spec.get("servers") or []   (AttributeError is caught: pass)
        servers == IF openapi_spec.t # "dict" THEN JList(<<>>)
                   ELSE IF Truthy(openapi_spec.servers) THEN openapi_spec.servers
                   ELSE JList(<<>>)
        first == servers.items[1]
        url == IF first.t = "dict" THEN first.url ELSE Null
        parsed == urlparse(openapi_url)
    IN  IF /\ openapi_spec.t = "dict"
           /\ Truthy(servers) /\ servers.t = "list"
           /\ url.t = "str" /\ url.v # <<>>
        THEN [raised |-> FALSE, exc |-> "", value |-> url.v]
        ELSE IF parsed.raised
        THEN [raised |-> TRUE, exc |-> parsed.exc, value |-> <<>>]
        ELSE [raised |-> FALSE, exc |-> "", value |-> UrlOrigin(parsed)]

(***************************************************************************)
(* The application's routes (Starlette's router: first full match wins).   *)
(***************************************************************************)
P_generate == <<"/", "g", "e", "n", "e", "r", "a", "t", "e">>
P_health == <<"/", "h", "e", "a", "l", "t", "h">>
P_root == <<"/">>
P_mcp == <<"/", "m", "c", "p", "/">>
P_srv == <<"s", "r", "v", "-">>

Endpoint(name) == [type |-> "endpoint", name |-> name, mcp |-> 0]
StaticFiles == [type |-> "static", name |-> "static", mcp |-> 0]
\* mcp.http_app(path="/") of the FastMCP object that request r built
McpApp(r) == [type |-> "mcp", name |-> "", mcp |-> r]
NotFound == [type |-> "none", name |-> "", mcp |-> 0]

Route(path, name) == [kind |-> "route", path |-> path, app |-> Endpoint(name)]
\* starlette Mount.__init__: self.path = path.rstrip("/")
Mount(path, app) == [kind |-> "mount", path |-> RStripSlash(path), app |-> app]

\* Route.matches / Mount.matches for a GET of request path p
Matches(rt, p) ==
    IF rt.kind = "route" THEN p = rt.path
    ELSE IsPrefix(rt.path \o <<Slash>>, p)

\* Router.app: the first route of rts, from index i on, that matches p
RECURSIVE Dispatch(_, _, _)
Dispatch(rts, p, i) ==
    IF i > Len(rts) THEN NotFound
    ELSE IF Matches(rts[i], p) THEN rts[i].app
    ELSE Dispatch(rts, p, i + 1)

\* faulty variant: the static UI is mounted before the API routes are declared
InitRoutes_static_first(web) ==
    (IF web THEN <<Mount(P_root, StaticFiles)>> ELSE <<>>)
    \o <<Route(<<"/", "o", "p", "e", "n", "a", "p", "i", ".", "j", "s", "o", "n">>, "openapi"),
         Route(<<"/", "d", "o", "c", "s">>, "swagger_ui_html"),
         Route(P_generate, "generate"),
         Route(P_health, "health")>>

\* main.py:24, 140, 183, 187-195: the routes after the module is imported;
\* web says whether the directory of the static UI exists
InitRoutes(web) ==
    <<Route(<<"/", "o", "p", "e", "n", "a", "p", "i", ".", "j", "s", "o", "n">>, "openapi"),
      Route(<<"/", "d", "o", "c", "s">>, "swagger_ui_html"),
      Route(P_generate, "generate"),
      Route(P_health, "health")>>
    \o (IF web THEN <<Mount(P_root, StaticFiles)>> ELSE <<>>)

\* app.mount(path, app): Router.mount appends
app_mount(rts, path, app) == Append(rts, Mount(path, app))

(***************************************************************************)
(* GET /generate (main.py:140-180), in the steps its awaits cut it into.   *)
(***************************************************************************)
Requests == 1..MaxRequests

NoBody == [none |-> ""]
NoResp == [status |-> 0, body |-> NoBody]
NotServed == [result |-> "none", format |-> "", doc |-> Null]

\* request.base_url: scheme://host[:port]/
BaseUrls == { <<"h", ":", "/", "/", "a", "/">>,
              <<"h", ":", "/", "/", "b", ":", "8", "/">> }

\* the openapi_url query parameter
OpenapiUrls == { <<"h", ":", "/", "/", "a", "/", "s">>,
                 <<"h", ":", "/", "/", "[", "@", "a", "/", "s">> }

DocOpenapi == [t |-> "dict", servers |-> Absent, openapi |-> TRUE]
DocMapping == [t |-> "dict", servers |-> Absent, openapi |-> FALSE]
DocScalar == [t |-> "other", servers |-> Absent, openapi |-> FALSE]

\* what the server at openapi_url does with the GET
Served ==
    { [result |-> "unreachable", format |-> "", doc |-> Null],
      [result |-> "http_error", format |-> "", doc |-> Null],
      [result |-> "body", format |-> "garbage", doc |-> Null] }
    \cup { [result |-> "body", format |-> f, doc |-> d] :
             f \in {"json", "yaml"}, d \in {DocOpenapi, DocMapping, DocScalar} }

\* faulty variant: no resp.raise_for_status(), the body of an error answer is parsed
FetchSpec_no_raise_for_status(s, haveYaml) ==
    IF s.result = "unreachable"
    THEN [raised |-> TRUE, exc |-> "ConnectError", value |-> Null]
    ELSE IF s.result = "http_error" \/ s.format = "json"
    THEN [raised |-> FALSE, exc |-> "", value |-> s.doc]
    ELSE IF haveYaml /\ s.format = "yaml"
    THEN [raised |-> FALSE, exc |-> "", value |-> s.doc]
    ELSE [raised |-> TRUE, exc |-> "JSONDecodeError", value |-> Null]

\* main.py:146-158: [raised, exc, value] of the fetch and parse of s
FetchSpec(s, haveYaml) ==
    IF s.result = "unreachable"
    THEN [raised |-> TRUE, exc |-> "ConnectError", value |-> Null]
    ELSE IF s.result = "http_error"
    THEN [raised |-> TRUE, exc |-> "HTTPStatusError", value |-> Null]
    ELSE IF s.format = "json"
    THEN [raised |-> FALSE, exc |-> "", value |-> s.doc]
    ELSE IF haveYaml /\ s.format = "yaml"
    THEN [raised |-> FALSE, exc |-> "", value |-> s.doc]
    ELSE [raised |-> TRUE, exc |-> "JSONDecodeError", value |-> Null]

\* main.py:55-131: the outcomes [raised, exc] of _build_mcp_from_openapi
\* (SchemaPath.from_dict of a non-mapping may raise or not: what follows raises)
_build_mcp_from_openapi(openapi_spec, openapi_url) ==
    LET base_url == _derive_base_url(openapi_spec, openapi_url)
    IN  IF openapi_spec.t # "dict"
        THEN { [raised |-> TRUE, exc |-> "SchemaPathError"],
               IF base_url.raised THEN [raised |-> TRUE, exc |-> base_url.exc]
               ELSE [raised |-> TRUE, exc |-> "AttributeError"] }
        ELSE IF base_url.raised THEN { [raised |-> TRUE, exc |-> base_url.exc] }
        ELSE IF ~openapi_spec.openapi THEN { [raised |-> TRUE, exc |-> "ValidationError"] }
        ELSE { [raised |-> FALSE, exc |-> ""] }

HTTPException(status_code, detail) ==
    [status |-> status_code, body |-> [detail |-> detail]]

server_id_of(token) == P_srv \o token
mount_path_of(server_id) == P_mcp \o server_id
\* faulty variant: the base URL keeps its trailing '/'
mcp_url_of_keep_slash(base_url, mount_path) == base_url \o mount_path \o <<Slash>>

mcp_url_of(base_url, mount_path) == RStripSlash(base_url) \o mount_path \o <<Slash>>

\* RUNNING_SERVERS[server_id] = {...}
DictSet(d, k, v) == [x \in DOMAIN d \cup {k} |-> IF x = k THEN v ELSE d[x]]

NewReq ==
    [pc |-> "new", path |-> <<>>, handler |-> NotFound, base_url |-> <<>>,
     openapi_url |-> <<>>, served |-> NotServed, spec |-> Null,
     built |-> [raised |-> FALSE, exc |-> ""], resp |-> NoResp]

\* the request paths a client sends: the API, the UI, and the mcp_url of a 200
ClientPaths ==
    {P_generate, P_health, P_root}
    \cup { urlparse(req[q].resp.body.mcp_url).path :
             q \in { x \in Requests : req[x].handler = Endpoint("generate")
                                      /\ req[x].resp.status = 200 } }

\* the router hands request r to the first matching route; /health answers at once
Receive(r) ==
    /\ req[r].pc = "new"
    /\ \A k \in 1..(r - 1) : req[k].pc # "new"
    /\ \E p \in ClientPaths :
         LET h == Dispatch(routes, p, 1)
         IN  IF h = Endpoint("generate")
             THEN req' = [req EXCEPT ![r] = [@ EXCEPT !.pc = "fetching", !.path = p,
                            !.handler = h]]
             ELSE IF h = Endpoint("health")
             THEN req' = [req EXCEPT ![r] = [@ EXCEPT !.pc = "done", !.path = p,
                            !.handler = h,
                            !.resp = [status |-> 200, body |-> [status |-> "ok"]]]]
             ELSE IF h = NotFound
             THEN req' = [req EXCEPT ![r] = [@ EXCEPT !.pc = "done", !.path = p,
                            !.handler = h, !.resp = HTTPException(404, "Not Found")]]
             ELSE req' = [req EXCEPT ![r] = [@ EXCEPT !.pc = "delegated", !.path = p,
                            !.handler = h]]
    /\ UNCHANGED <<yaml, routes, RUNNING_SERVERS, sec, durl>>

\* main.py:144-161: http.get returns or raises; the body is parsed
FetchDone(r) ==
    /\ req[r].pc = "fetching"
    /\ \E s \in Served :
         LET f == FetchSpec(s, yaml)
         IN  IF f.raised
             THEN req' = [req EXCEPT ![r] = [@ EXCEPT !.pc = "done", !.served = s,
                            !.resp = HTTPException(400, "Failed to fetch OpenAPI: " \o f.exc)]]
             ELSE req' = [req EXCEPT ![r] = [@ EXCEPT !.pc = "fetched", !.served = s,
                            !.spec = f.value]]
    /\ UNCHANGED <<yaml, routes, RUNNING_SERVERS, sec, durl>>

\* faulty variant: the server is mounted and registered before the build outcome is looked at
generate_mount_register_first(rts, servers, r, m, token, base_url) ==
    LET server_id == server_id_of(token)
        mount_path == mount_path_of(server_id)
        mcp_url == mcp_url_of(base_url, mount_path)
    IN  [routes |-> app_mount(rts, mount_path, McpApp(r)),
         servers |-> DictSet(servers, server_id, [mount_path |-> mount_path, mcp |-> r]),
         resp |-> IF m.raised
                  THEN HTTPException(400, "Failed to build MCP: " \o m.exc)
                  ELSE [status |-> 200,
                        body |-> [server_id |-> server_id, mcp_url |-> mcp_url]]]

\* main.py:163-180, which no await interrupts: what the build outcome m, the
\* token and the request's base_url make of the routes, the registry and the
\* response of request r
generate_mount(rts, servers, r, m, token, base_url) ==
    IF m.raised
    THEN [routes |-> rts, servers |-> servers,
          resp |-> HTTPException(400, "Failed to build MCP: " \o m.exc)]
    ELSE LET server_id == server_id_of(token)
             mount_path == mount_path_of(server_id)
             mcp_url == mcp_url_of(base_url, mount_path)
         IN  [routes |-> app_mount(rts, mount_path, McpApp(r)),
              servers |-> DictSet(servers, server_id,
                                  [mount_path |-> mount_path, mcp |-> r]),
              resp |-> [status |-> 200,
                        body |-> [server_id |-> server_id, mcp_url |-> mcp_url]]]

\* The request's openapi_url and base_url are inputs that nothing reads before
\* this step: they are drawn here, and recorded.
BuildAndMount(r) ==
    /\ req[r].pc = "fetched"
    /\ \E u \in OpenapiUrls, b \in BaseUrls, token \in token_hex :
       \E m \in _build_mcp_from_openapi(req[r].spec, u) :
         LET g == generate_mount(routes, RUNNING_SERVERS, r, m, token, b)
         IN  /\ routes' = g.routes
             /\ RUNNING_SERVERS' = g.servers
             /\ req' = [req EXCEPT ![r] = [@ EXCEPT !.pc = "done", !.openapi_url = u,
                          !.base_url = b, !.built = m, !.resp = g.resp]]
    /\ UNCHANGED <<yaml, sec, durl>>

(***************************************************************************)
(* _derive_base_url on its own: the inputs and the call.                   *)
(***************************************************************************)
UrlAlphabet == {"h", "H", ":", "/", "["}

RECURSIVE SeqsUpTo(_, _)
SeqsUpTo(S, n) ==
    IF n = 0 THEN {<<>>}
    ELSE LET shorter == SeqsUpTo(S, n - 1)
         IN  shorter \cup { Append(x, c) : x \in shorter, c \in S }

U1 == <<"h", ":", "/", "/", "a">>
U2 == <<"h", ":", "/", "/", "b">>

Doc(servers) == [t |-> "dict", servers |-> servers, openapi |-> TRUE]

DurlDocs ==
    { DocScalar }
    \cup { Doc(x) : x \in { Absent, Null, JList(<<>>), JStr(U1), JDict,
                            JList(<<JStr(U1)>>),
                            JList(<<JServer(Absent)>>),
                            JList(<<JServer(JStr(<<>>))>>),
                            JList(<<JServer(JInt)>>),
                            JList(<<JServer(JStr(U1))>>),
                            JList(<<JServer(JStr(U1)), JServer(JStr(U2))>>),
                            JList(<<JStr(U1), JServer(JStr(U2))>>) } }

InitDurl ==
    /\ durl \in { [pc |-> "call", openapi_spec |-> d, openapi_url |-> u,
                   result |-> [raised |-> FALSE, exc |-> "", value |-> <<>>]] :
                  d \in DurlDocs, u \in SeqsUpTo(UrlAlphabet, MaxUrlLen) }
    /\ yaml = TRUE
    /\ routes = <<>>
    /\ RUNNING_SERVERS = [x \in {} |-> 0]
    /\ req = <<>>
    /\ sec = 0

CallDeriveBaseUrl ==
    /\ durl.pc = "call"
    /\ durl' = [durl EXCEPT !.pc = "returned",
                  !.result = _derive_base_url(durl.openapi_spec, durl.openapi_url)]
    /\ UNCHANGED <<yaml, routes, RUNNING_SERVERS, req, sec>>

SpecDurl == InitDurl /\ [][CallDeriveBaseUrl]_vars

\* the document has a 'servers' list whose first entry is a dict with a
\* non-empty string 'url'
HasServerUrl(d) ==
    /\ d.t = "dict"
    /\ d.servers.t = "list"
    /\ Len(d.servers.items) >= 1
    /\ d.servers.items[1].t = "dict"
    /\ d.servers.items[1].url.t = "str"
    /\ Len(d.servers.items[1].url.v) >= 1

\* C10 as stated: _derive_base_url never raises; it returns the first server's
\* 'url' when there is one (a non-empty string), and in every other case
\* '<scheme>://<netloc>' of openapi_url.
C10_NeverRaises ==
    durl.pc = "returned" =>
        /\ ~durl.result.raised
        /\ IF HasServerUrl(durl.openapi_spec)
           THEN durl.result.value = durl.openapi_spec.servers.items[1].url.v
           ELSE durl.result.value =
                  urlparse(durl.openapi_url).scheme \o <<":", "/", "/">>
                    \o urlparse(durl.openapi_url).netloc

\* C10 amended: _derive_base_url returns the first server's 'url' when there
\* is one (a non-empty string); in every other case it returns
\* '<scheme>://<netloc>' of openapi_url, unless urlparse raises ValueError for
\* openapi_url, and then that error propagates (nothing else ever raises).
C10_DeriveBaseUrl ==
    durl.pc = "returned" =>
        IF HasServerUrl(durl.openapi_spec)
        THEN /\ ~durl.result.raised
             /\ durl.result.value = durl.openapi_spec.servers.items[1].url.v
        ELSE /\ durl.result.raised = urlparse(durl.openapi_url).raised
             /\ ~durl.result.raised =>
                  durl.result.value =
                    urlparse(durl.openapi_url).scheme \o <<":", "/", "/">>
                      \o urlparse(durl.openapi_url).netloc

C10_Witness ==
    /\ durl.pc = "returned"
    /\ ~HasServerUrl(durl.openapi_spec)
    /\ durl.openapi_spec.t = "dict"
    /\ durl.openapi_spec.servers.t = "list"
    /\ durl.result.raised
    /\ durl.openapi_url = <<"H", ":", "/", "/", "[">>

(***************************************************************************)
(* get_security_schemes_for_route and customize_components (main.py:59-119)*)
(* on their own.  A document here is [paths, security]: paths maps a path  *)
(* to its operations by method, an operation is [security]; Absent stands  *)
(* for a key that is not there.  A 'security' value is a JSON value whose  *)
(* list items are requirement objects [t |-> "dict", keys] or non-dicts.   *)
(***************************************************************************)
Requirement(names) == [t |-> "dict", keys |-> names]

\* (spec / k1 / k2 / ...).open(): the value, or KeyError
RECURSIVE SchemaPathOpen(_, _)
SchemaPathOpen(node, keys) ==
    IF keys = <<>> THEN [found |-> node # Absent, value |-> node]
    ELSE IF Head(keys) \in DOMAIN node.children
    THEN SchemaPathOpen(node.children[Head(keys)], Tail(keys))
    ELSE [found |-> FALSE, value |-> Absent]

\* str.lower() of an HTTP method
MethodLower(m) ==
    CASE m = "GET" -> "get"
      [] m = "POST" -> "post"
      [] OTHER -> m

\* main.py:66-70 and 78-82: add the names of a 'security' value to schemes
RECURSIVE AddSchemes(_, _)
AddSchemes(schemes, items) ==
    IF items = <<>> THEN schemes
    ELSE AddSchemes(IF Head(items).t = "dict" THEN schemes \cup Head(items).keys
                    ELSE schemes,
                    Tail(items))

\* faulty variant: an operation-level 'security' that names nothing falls through to
\* the top-level one
get_security_schemes_fallthrough(spec, route) ==
    LET op == SchemaPathOpen(spec, <<"paths", route.path, MethodLower(route.method), "security">>)
        top == SchemaPathOpen(spec, <<"security">>)
        own == IF op.found /\ op.value.t = "list" THEN AddSchemes({}, op.value.items) ELSE {}
    IN  IF own # {} THEN own
        ELSE IF top.found
        THEN (IF top.value.t = "list" THEN AddSchemes({}, top.value.items) ELSE {})
        ELSE {}

\* main.py:59-86
get_security_schemes_for_route(spec, route) ==
    LET op == SchemaPathOpen(spec, <<"paths", route.path, MethodLower(route.method), "security">>)
        top == SchemaPathOpen(spec, <<"security">>)
    IN  IF op.found
        THEN (IF op.value.t = "list" THEN AddSchemes({}, op.value.items) ELSE {})
        ELSE IF top.found
        THEN (IF top.value.t = "list" THEN AddSchemes({}, top.value.items) ELSE {})
        ELSE {}

AuthSchema ==
    [type |-> "string", description |-> "Authorization header (e.g., 'Bearer <token>')."]

\* a Python dict: keys, and the value under "properties" (itself a dict:
\* a function from names to schemas)
PyNone == [t |-> "none", keys |-> {}, properties |-> <<>>]
PyDict(keys, properties) == [t |-> "dict", keys |-> keys, properties |-> properties]

\* d.setdefault("properties", {})
SetDefaultProperties(d) ==
    IF "properties" \in d.keys THEN d
    ELSE PyDict(d.keys \cup {"properties"}, <<>>)

\* faulty variant: the entry is written without the 'not in' test
AddIfMissing_overwrite(props, v) == DictSet(props, "Authorization", v)

\* if "Authorization" not in props: props["Authorization"] = v
AddIfMissing(props, v) ==
    IF "Authorization" \in DOMAIN props THEN props
    ELSE DictSet(props, "Authorization", v)

\* main.py:88-119: the [route, component] that the call leaves
customize_components(spec, route, component) ==
    LET tagged == [component EXCEPT !.tags = @ \cup {"openapi"}]
        secured_schemes == get_security_schemes_for_route(spec, route)
    IN  IF secured_schemes = {} THEN [route |-> route, component |-> tagged]
        ELSE IF ~component.is_tool THEN [route |-> route, component |-> tagged]
        ELSE LET params0 == IF component.parameters.t = "none"
                               \/ component.parameters.keys = {}
                            THEN PyDict({"type", "properties"}, <<>>)
                            ELSE component.parameters
                 params1 == SetDefaultProperties(params0)
                 params == [params1 EXCEPT !.properties = AddIfMissing(@, AuthSchema)]
                 pmap == AddIfMissing(route.parameter_map,
                             [location |-> "header", openapi_name |-> "Authorization"])
                 flat1 == SetDefaultProperties(route.flat_param_schema)
                 flat == [flat1 EXCEPT !.properties = AddIfMissing(@, AuthSchema)]
             IN  [route |-> [route EXCEPT !.parameter_map = pmap,
                                          !.flat_param_schema = flat],
                  component |-> [tagged EXCEPT !.parameters = params]]

SchemeNames == {"bearerAuth", "apiKey"}

\* the 'security' values: absent, null, a dict, and the lists of up to n items
SecurityValues(n) ==
    { Absent, Null, JDict }
    \cup { JList(xs) : xs \in SeqsUpTo({ Requirement(ns) : ns \in SUBSET SchemeNames }
                                         \cup { JStr(<<"x">>) }, n) }

Node(children) == [t |-> "dict", children |-> children]

Operation(security) ==
    [t |-> "dict", v |-> <<>>, items |-> <<>>, children |-> [k \in {"security"} |-> security]]

\* a document with GET /a (security op), POST /a (security other) and the
\* top-level security top; without GET /a when hasGet is FALSE
SecDoc(hasGet, op, other, top) ==
    Node([k \in {"paths", "security"} |->
            IF k = "security" THEN top
            ELSE Node([p \in {"/a"} |->
                    Node([m \in (IF hasGet THEN {"get", "post"} ELSE {"post"}) |->
                            IF m = "get" THEN Operation(op) ELSE Operation(other)])])])

IdSchema == [type |-> "integer", description |-> "id"]
OwnSchema == [type |-> "string", description |-> "own"]

ParameterValues ==
    { PyNone, PyDict({}, <<>>), PyDict({"type"}, <<>>), PyDict({"type", "properties"}, <<>>),
      PyDict({"type", "properties"}, [k \in {"id"} |-> IdSchema]),
      PyDict({"type", "properties"}, [k \in {"id", "Authorization"} |->
                                         IF k = "id" THEN IdSchema ELSE OwnSchema]) }

ParameterMaps ==
    { [k \in {"id"} |-> [location |-> "path", openapi_name |-> "id"]],
      [k \in {"id", "Authorization"} |->
          IF k = "id" THEN [location |-> "path", openapi_name |-> "id"]
          ELSE [location |-> "query", openapi_name |-> "Authorization"]] }

FlatSchemas == ParameterValues \ { PyNone }

SecStart(spec, route, component) ==
    [pc |-> "start", spec |-> spec, route |-> route, component |-> component,
     schemes |-> {}, calls |-> 0, pre |-> [route |-> route, component |-> component],
     once |-> [route |-> route, component |-> component]]

HarnessRest ==
    /\ yaml = TRUE
    /\ routes = <<>>
    /\ RUNNING_SERVERS = [x \in {} |-> 0]
    /\ req = <<>>
    /\ durl = 0

\* inputs of get_security_schemes_for_route
InitSec ==
    /\ sec \in { SecStart(SecDoc(g, op, other, top),
                          [path |-> "/a", method |-> "GET",
                           parameter_map |-> [k \in {"id"} |-> [location |-> "path", openapi_name |-> "id"]],
                           flat_param_schema |-> PyDict({}, <<>>)],
                          [is_tool |-> TRUE, tags |-> {}, parameters |-> PyNone]) :
                 g \in BOOLEAN,
                 op \in SecurityValues(MaxSecLen),
                 other \in { Absent, JList(<<Requirement({"other"})>>) },
                 top \in SecurityValues(MaxSecLen) }
    /\ HarnessRest

CallGetSchemes ==
    /\ sec.pc = "start"
    /\ sec' = [sec EXCEPT !.pc = "returned",
                 !.schemes = get_security_schemes_for_route(sec.spec, sec.route)]
    /\ UNCHANGED <<yaml, routes, RUNNING_SERVERS, req, durl>>

SpecSec == InitSec /\ [][CallGetSchemes]_vars

\* inputs of customize_components
InitCustomize ==
    /\ sec \in { SecStart(SecDoc(TRUE, op, Absent, top),
                          [path |-> "/a", method |-> "GET",
                           parameter_map |-> pm, flat_param_schema |-> fl],
                          [is_tool |-> tool, tags |-> tags, parameters |-> pv]) :
                 op \in SecurityValues(1),
                 top \in { Absent, JList(<<Requirement({"apiKey"})>>) },
                 pm \in ParameterMaps, fl \in FlatSchemas,
                 tool \in BOOLEAN, tags \in { {}, {"pets"} },
                 pv \in ParameterValues }
    /\ HarnessRest

\* FastMCP.from_openapi calls mcp_component_fn(route, component)
CallCustomize ==
    /\ sec.calls < 2
    /\ LET out == customize_components(sec.spec, sec.route, sec.component)
       IN  sec' = [sec EXCEPT !.pc = "customized", !.calls = @ + 1,
                     !.route = out.route, !.component = out.component,
                     !.once = IF sec.calls = 0 THEN out ELSE @]
    /\ UNCHANGED <<yaml, routes, RUNNING_SERVERS, req, durl>>

SpecCustomize == InitCustomize /\ [][CallCustomize]_vars

\* the names a 'security' value applies: the keys of its requirement objects
NamesOf(security) ==
    IF security.t = "list"
    THEN UNION { security.items[i].keys :
                   i \in { k \in 1..Len(security.items) : security.items[k].t = "dict" } }
    ELSE {}

\* the operation-level and top-level 'security' of a harness document
\* (Absent: no such key, or no such operation)
OpSecurity(spec, route) ==
    LET ops == spec.children["paths"].children[route.path].children
        m == IF route.method = "GET" THEN "get" ELSE "post"
    IN  IF m \in DOMAIN ops THEN ops[m].children["security"] ELSE Absent

TopSecurity(spec) == spec.children["security"]

\* the scheme set the claims speak of
Applied(spec, route) ==
    IF OpSecurity(spec, route) # Absent THEN NamesOf(OpSecurity(spec, route))
    ELSE IF TopSecurity(spec) # Absent THEN NamesOf(TopSecurity(spec))
    ELSE {}

\* C8: get_security_schemes_for_route returns the key names of the operation's
\* own 'security' list when the operation has a 'security' key (the top-level
\* one is then not consulted, even for an empty list), and otherwise the key
\* names of the top-level 'security' list, or the empty set without one.
C8_SecuritySchemes ==
    sec.pc = "returned" =>
        /\ sec.schemes = Applied(sec.spec, sec.route)
        /\ OpSecurity(sec.spec, sec.route) # Absent =>
              sec.schemes = NamesOf(OpSecurity(sec.spec, sec.route))
        /\ OpSecurity(sec.spec, sec.route) = JList(<<>>) => sec.schemes = {}
        /\ sec.schemes \subseteq SchemeNames

C8_Witness ==
    /\ sec.pc = "returned"
    /\ OpSecurity(sec.spec, sec.route) = JList(<<>>)
    /\ TopSecurity(sec.spec) = JList(<<Requirement({"apiKey"})>>)
    /\ sec.schemes = {}

HasAuth(d) == d.t = "dict" /\ "properties" \in d.keys /\ "Authorization" \in DOMAIN d.properties

\* C9: customize_components tags every component 'openapi'; it puts an
\* 'Authorization' entry into component.parameters['properties'],
\* route.parameter_map (header-located) and route.flat_param_schema['properties']
\* exactly when the component is a tool and the route has a security scheme,
\* and leaves the three alone otherwise; an entry that is already there is
\* kept, and a second call changes nothing.
C9_Customize ==
    sec.pc = "customized" =>
        LET pre == sec.pre
            secured == pre.component.is_tool /\ Applied(sec.spec, pre.route) # {}
        IN  /\ "openapi" \in sec.component.tags
            /\ pre.component.tags \subseteq sec.component.tags
            /\ secured =>
                 /\ HasAuth(sec.component.parameters)
                 /\ "Authorization" \in DOMAIN sec.route.parameter_map
                 /\ HasAuth(sec.route.flat_param_schema)
                 /\ ~HasAuth(pre.component.parameters) =>
                      sec.component.parameters.properties["Authorization"] = AuthSchema
                 /\ "Authorization" \notin DOMAIN pre.route.parameter_map =>
                      sec.route.parameter_map["Authorization"].location = "header"
                 /\ ~HasAuth(pre.route.flat_param_schema) =>
                      sec.route.flat_param_schema.properties["Authorization"] = AuthSchema
            /\ ~secured =>
                 /\ sec.component.parameters = pre.component.parameters
                 /\ sec.route.parameter_map = pre.route.parameter_map
                 /\ sec.route.flat_param_schema = pre.route.flat_param_schema
            /\ HasAuth(pre.component.parameters) =>
                 sec.component.parameters.properties["Authorization"]
                   = pre.component.parameters.properties["Authorization"]
            /\ "Authorization" \in DOMAIN pre.route.parameter_map =>
                 sec.route.parameter_map["Authorization"]
                   = pre.route.parameter_map["Authorization"]
            /\ HasAuth(pre.route.flat_param_schema) =>
                 sec.route.flat_param_schema.properties["Authorization"]
                   = pre.route.flat_param_schema.properties["Authorization"]
            /\ \A k \in DOMAIN pre.route.parameter_map :
                 sec.route.parameter_map[k] = pre.route.parameter_map[k]
            /\ sec.calls = 2 =>
                 (sec.route = sec.once.route /\ sec.component = sec.once.component)

C9_Witness ==
    /\ sec.pc = "customized"
    /\ sec.calls = 2
    /\ sec.pre.component.is_tool
    /\ Applied(sec.spec, sec.pre.route) # {}
    /\ HasAuth(sec.pre.component.parameters)
    /\ ~HasAuth(sec.pre.route.flat_param_schema)
    /\ "Authorization" \notin DOMAIN sec.pre.route.parameter_map

Init ==
    /\ yaml \in BOOLEAN
    /\ \E web \in BOOLEAN : routes = InitRoutes(web)
    /\ RUNNING_SERVERS = [x \in {} |-> 0]
    /\ req = [r \in Requests |-> NewReq]
    /\ sec = 0
    /\ durl = 0

Next ==
    \E r \in Requests :
        \/ Receive(r)
        \/ FetchDone(r)
        \/ BuildAndMount(r)

Spec == Init /\ [][Next]_vars

(***************************************************************************)
(* Claims about /generate, /health and the routes (specification Spec).    *)
(***************************************************************************)
GenerateDone(r) == req[r].handler = Endpoint("generate") /\ req[r].pc = "done"

Succeeded(r) == GenerateDone(r) /\ req[r].resp.status = 200

\* the body at openapi_url is one the fetch step can parse
Parsable(s) == s.result = "body" /\ (s.format = "json" \/ (s.format = "yaml" /\ yaml))

HexDigitSet == { HexChars[i] : i \in 1..Len(HexChars) }

\* 'srv-' and eight hex digits
IsServerId(id) ==
    /\ Len(id) = Len(P_srv) + 2 * TokenNBytes
    /\ SubSeq(id, 1, Len(P_srv)) = P_srv
    /\ \A i \in (Len(P_srv) + 1)..Len(id) : id[i] \in HexDigitSet

\* url is base without its trailing '/', then '/mcp/<id>/'
IsMcpUrl(url, base, id) ==
    \E n \in 0..Len(base) :
        /\ n = 0 \/ base[n] # "/"
        /\ \A k \in (n + 1)..Len(base) : base[k] = "/"
        /\ url = SubSeq(base, 1, n) \o <<"/", "m", "c", "p", "/">> \o id \o <<"/">>

\* C1: a /generate request whose fetch step and conversion step both succeed is
\* answered 200 with exactly server_id and mcp_url, server_id being 'srv-' and
\* eight hex digits and mcp_url the request's base URL without its trailing '/'
\* followed by '/mcp/<server_id>/'.
C1_GenerateOk ==
    \A r \in Requests :
        (GenerateDone(r) /\ Parsable(req[r].served) /\ ~req[r].built.raised) =>
            /\ req[r].resp.status = 200
            /\ DOMAIN req[r].resp.body = {"server_id", "mcp_url"}
            /\ IsServerId(req[r].resp.body.server_id)
            /\ IsMcpUrl(req[r].resp.body.mcp_url, req[r].base_url,
                        req[r].resp.body.server_id)

C1_Witness ==
    \E r \in Requests :
        /\ GenerateDone(r) /\ Parsable(req[r].served) /\ ~req[r].built.raised
        /\ req[r].served.format = "yaml"
        /\ req[r].resp.status = 200
        /\ req[r].resp.body.server_id # server_id_of(HexOf(TokenSample(0)))

FetchMessages == {"ConnectError", "HTTPStatusError", "JSONDecodeError"}
BuildMessages == {"SchemaPathError", "AttributeError", "ValidationError", "Invalid IPv6 URL"}

\* C2: a /generate request whose URL is unreachable, answers with an error
\* status or serves no valid OpenAPI document is answered 400: with detail
\* 'Failed to fetch OpenAPI: <message>' when the fetch/parse step fails, with
\* detail 'Failed to build MCP: <message>' when the conversion step fails; such
\* a request never ends in a 200 or a 5xx.
C2_GenerateErrors ==
    \A r \in Requests :
        GenerateDone(r) =>
            LET s == req[r].served
                resp == req[r].resp
            IN  /\ (~Parsable(s)) =>
                      /\ resp.status = 400
                      /\ DOMAIN resp.body = {"detail"}
                      /\ \E msg \in FetchMessages :
                           resp.body.detail = "Failed to fetch OpenAPI: " \o msg
                      /\ resp.body.detail =
                           "Failed to fetch OpenAPI: " \o FetchSpec(s, yaml).exc
                /\ (Parsable(s) /\ (s.doc # DocOpenapi \/ req[r].built.raised)) =>
                      /\ resp.status = 400
                      /\ DOMAIN resp.body = {"detail"}
                      /\ \E msg \in BuildMessages :
                           resp.body.detail = "Failed to build MCP: " \o msg
                      /\ resp.body.detail = "Failed to build MCP: " \o req[r].built.exc

C2_Witness ==
    /\ \E r \in Requests :
         GenerateDone(r) /\ req[r].served.result = "http_error" /\ req[r].resp.status = 400
    /\ \E r \in Requests :
         /\ GenerateDone(r) /\ Parsable(req[r].served) /\ req[r].served.doc = DocMapping
         /\ req[r].resp.status = 400

MountPaths == { routes[i].path : i \in { k \in 1..Len(routes) : routes[k].app.type = "mcp" } }

\* C3: each generated server_id identifies exactly one mounted sub-application:
\* no two successful requests obtain the same server_id, no mount path
\* '/mcp/<id>' is mounted twice.
C3_UniqueServerIds ==
    /\ \A r1, r2 \in Requests :
         (Succeeded(r1) /\ Succeeded(r2) /\ r1 # r2) =>
             req[r1].resp.body.server_id # req[r2].resp.body.server_id
    /\ \A i, k \in 1..Len(routes) :
         (i # k /\ routes[i].kind = "mount") => routes[i].path # routes[k].path

\* C4: a request to the mcp_url that a successful /generate returned is
\* dispatched to the MCP sub-application which that request built, never to
\* the static UI or to another server's sub-application.
C4_McpUrlUsable ==
    \A q \in Requests :
        Succeeded(q) =>
            LET p == urlparse(req[q].resp.body.mcp_url).path
            IN  /\ Dispatch(routes, p, 1) = McpApp(q)
                /\ \A r \in Requests :
                     (req[r].pc # "new" /\ req[r].path = p) => req[r].handler = McpApp(q)

\* C5: in every state GET /health is answered by the health handler with
\* {"status": "ok"} and GET /generate by the generate handler, whether or not
\* the static UI is mounted and however many MCP servers are mounted.
C5_ApiRoutesFirst ==
    /\ Dispatch(routes, P_health, 1) = Endpoint("health")
    /\ Dispatch(routes, P_generate, 1) = Endpoint("generate")
    /\ \A r \in Requests :
         /\ (req[r].pc # "new" /\ req[r].path = P_health) =>
                /\ req[r].handler = Endpoint("health")
                /\ req[r].resp = [status |-> 200, body |-> [status |-> "ok"]]
         /\ (req[r].pc # "new" /\ req[r].path = P_generate) =>
                req[r].handler = Endpoint("generate")

C5_Witness ==
    /\ \E i \in 1..Len(routes) : routes[i].app = StaticFiles
    /\ MountPaths # {}
    /\ \E r \in Requests : req[r].path = P_health /\ req[r].pc = "done"

\* C6: every server_id returned in a 200 is a key of RUNNING_SERVERS whose
\* entry holds mount_path '/mcp/<server_id>' and the FastMCP object that the
\* request built; the number of entries is the number of successful requests.
C6_RegistryKeepsHandles ==
    /\ \A r \in Requests :
         Succeeded(r) =>
             LET id == req[r].resp.body.server_id
             IN  /\ id \in DOMAIN RUNNING_SERVERS
                 /\ RUNNING_SERVERS[id] =
                      [mount_path |-> <<"/", "m", "c", "p", "/">> \o id, mcp |-> r]
    /\ Cardinality(DOMAIN RUNNING_SERVERS)
         = Cardinality({ r \in Requests : Succeeded(r) })

\* a step that changes the routes or the registry is the step in which a
\* /generate request gets its 200
OnlySuccessMounts ==
    (routes' # routes \/ RUNNING_SERVERS' # RUNNING_SERVERS) =>
        \E r \in Requests :
            /\ req[r].pc = "fetched" /\ req'[r].pc = "done"
            /\ req'[r].resp.status = 200
            /\ \A o \in Requests \ {r} : req'[o] = req[o]

\* a step in which a /generate request fails leaves the routes and registry alone
FailureHasNoEffect ==
    \A r \in Requests :
        (req[r].pc # "done" /\ req'[r].pc = "done" /\ req'[r].resp.status # 200) =>
            (routes' = routes /\ RUNNING_SERVERS' = RUNNING_SERVERS)

MountedIffRegistered ==
    \A token \in token_hex :
        LET id == server_id_of(token)
        IN  (<<"/", "m", "c", "p", "/">> \o id \in MountPaths) <=> (id \in DOMAIN RUNNING_SERVERS)

\* C7: a /generate request that fails at the fetch step or at the conversion
\* step changes neither RUNNING_SERVERS nor the routes, and a path '/mcp/<id>'
\* is mounted if and only if <id> is a key of RUNNING_SERVERS.
C7_NoPartialEffect ==
    /\ [][OnlySuccessMounts /\ FailureHasNoEffect]_vars
    /\ [](MountedIffRegistered /\ MountPaths = { RUNNING_SERVERS[id].mount_path : id \in DOMAIN RUNNING_SERVERS })

C7_Witness ==
    /\ MountPaths # {}
    /\ \E r \in Requests : GenerateDone(r) /\ req[r].built.raised /\ req[r].resp.status = 400

====
